---- MODULE Spec2Model ----
(***************************************************************************)
(* Model of the company-name matching pipeline (company_match.pipeline).   *)
(*                                                                         *)
(*   Spec      : the demo loop of __main__.py calling match(q): candidate  *)
(*               retrieval (search_es), the three signals of scoring.py,   *)
(*               the decision of matching.py and the audit write of        *)
(*               logging_utils.py.                                         *)
(*   SpecDirty : the noise generator dirty_name of generator.py, with the  *)
(*               values returned by random.random / random.choice /        *)
(*               random.randint given as input streams.                    *)
(*                                                                         *)
(* Strings are tuples of one-character strings.  Python floats are         *)
(* modelled as exact non-negative rationals [n, d] in lowest terms; IEEE   *)
(* rounding is not modelled.                                               *)
(***************************************************************************)
EXTENDS Integers, Sequences, FiniteSets, TLC

VARIABLES
    pc,          \* position of the caller of match: "ready" | "returned" | "raised"
    q,           \* the query passed to match
    response,    \* what the HTTP POST to Elasticsearch produced
    sinkOk,      \* whether logs/company_matching_elk.jsonl can be opened and written
    sig,         \* the three signals computed by match (es_c, st_s, ph_s and bests)
    ret,         \* the decision returned by match (NoDecision before it returns)
    exc,         \* the exception that left match ("none" when it returned)
    doc,         \* the document this call appended to the audit file (NoDoc if none)
    auditLines,  \* number of lines in the audit file
    dpc,         \* position of the caller of dirty_name: "ready" | "done"
    dname,       \* argument of dirty_name
    drand,       \* the values random.random() returns, in call order
    dpick,       \* the indices random.choice() picks, in call order
    dswap,       \* the value random.randint() returns
    dout,        \* the string dirty_name returned
    dused,       \* number of random.random() values dirty_name consumed
    dtrace       \* the branches dirty_name took: [replaced, vowels, swapped]

matchVars == <<pc, q, response, sinkOk, sig, ret, exc, doc, auditLines>>
dirtyVars == <<dpc, dname, drand, dpick, dswap, dout, dused, dtrace>>
vars == <<pc, q, response, sinkOk, sig, ret, exc, doc, auditLines,
          dpc, dname, drand, dpick, dswap, dout, dused, dtrace>>

(***************************************************************************)
(* Bounds of the model.                                                    *)
(***************************************************************************)
MaxHits == 2
MaxScore == 2
MaxLogLines == 2

(***************************************************************************)
(* Strings.                                                                *)
(***************************************************************************)
ToLower ==
    [c \in {"A","B","C","D","E","F","G","H","I","J","K","L","M",
            "N","O","P","Q","R","S","T","U","V","W","X","Y","Z"} |->
        CASE c = "A" -> "a" [] c = "B" -> "b" [] c = "C" -> "c" [] c = "D" -> "d"
          [] c = "E" -> "e" [] c = "F" -> "f" [] c = "G" -> "g" [] c = "H" -> "h"
          [] c = "I" -> "i" [] c = "J" -> "j" [] c = "K" -> "k" [] c = "L" -> "l"
          [] c = "M" -> "m" [] c = "N" -> "n" [] c = "O" -> "o" [] c = "P" -> "p"
          [] c = "Q" -> "q" [] c = "R" -> "r" [] c = "S" -> "s" [] c = "T" -> "t"
          [] c = "U" -> "u" [] c = "V" -> "v" [] c = "W" -> "w" [] c = "X" -> "x"
          [] c = "Y" -> "y" [] c = "Z" -> "z"]

ToUpper ==
    [c \in {"a","b","c","d","e","f","g","h","i","j","k","l","m",
            "n","o","p","q","r","s","t","u","v","w","x","y","z"} |->
        CHOOSE u \in DOMAIN ToLower : ToLower[u] = c]

\* str.lower()
lower(s) == [i \in 1..Len(s) |-> IF s[i] \in DOMAIN ToLower THEN ToLower[s[i]] ELSE s[i]]

\* str.upper()
upper(s) == [i \in 1..Len(s) |-> IF s[i] \in DOMAIN ToUpper THEN ToUpper[s[i]] ELSE s[i]]

\* Python's None where a string or a hit is expected.
None == <<"None">>

(***************************************************************************)
(* Non-negative rationals for the float arithmetic of scoring.py.          *)
(***************************************************************************)
RECURSIVE GCD(_, _)
GCD(a, b) == IF b = 0 THEN a ELSE GCD(b, a % b)

Rat(n, d) == LET g == GCD(n, d) IN [n |-> n \div g, d |-> d \div g]
RatAdd(a, b) == Rat(a.n * b.d + b.n * a.d, a.d * b.d)
RatMul(a, b) == Rat(a.n * b.n, a.d * b.d)
RatGE(a, b) == a.n * b.d >= b.n * a.d
RatGT(a, b) == a.n * b.d > b.n * a.d

(***************************************************************************)
(* The vocabulary of the model: company names held by the index and        *)
(* free-text queries.                                                      *)
(***************************************************************************)
Smith == <<"S","m","i","t","h">>
Schmidt == <<"S","c","h","m","i","d","t">>
Sam == <<"S","a","m">>
Seim == <<"S","e","i","m">>
Digits == <<"1","2","3">>

UpperSmith == upper(Smith)
UpperSchmidt == upper(Schmidt)
UpperSam == upper(Sam)
UpperSeim == upper(Seim)

CompanyNames == {Smith, Schmidt, Sam, Digits}
Queries == {lower(Smith), Schmidt, lower(Sam), Seim, Digits}

\* A hit of the Elasticsearch response: {"_score": .., "_source": {"company_name": ..}}
Hit(name, score) == [company_name |-> name, score |-> score]
Hits == {Hit(nm, sc) : nm \in CompanyNames, sc \in 0..MaxScore}

RECURSIVE SeqsUpTo(_, _)
SeqsUpTo(S, k) ==
    IF k = 0 THEN {<<>>}
    ELSE LET shorter == SeqsUpTo(S, k - 1)
         IN shorter \cup {Append(l, x) : l \in {m \in shorter : Len(m) = k - 1}, x \in S}

HitLists == SeqsUpTo(Hits, MaxHits)

\* The outcomes of requests.post(ES_URL, json=body) followed by resp.json():
\*   unreachable : requests.post raises (connection refused, timeout)
\*   not_json    : the body is not JSON, resp.json() raises
\*   error_body  : a JSON object without hits.hits (an Elasticsearch error body)
\*   ok          : a JSON object carrying hits.hits
Responses ==
    {[kind |-> k, hits |-> <<>>] : k \in {"unreachable", "not_json", "error_body"}}
        \cup {[kind |-> "ok", hits |-> l] : l \in HitLists}

(***************************************************************************)
(* es_client.py                                                            *)
(***************************************************************************)
\* search_es(query): [exc, hits]
search_es(resp) ==
    CASE resp.kind = "unreachable" -> [exc |-> "ConnectionError", hits |-> <<>>]
      [] resp.kind = "not_json" -> [exc |-> "JSONDecodeError", hits |-> <<>>]
      [] resp.kind = "error_body" -> [exc |-> "none", hits |-> <<>>]
      [] OTHER -> [exc |-> "none", hits |-> resp.hits]

(***************************************************************************)
(* scoring.py                                                              *)
(***************************************************************************)
Max(a, b) == IF a >= b THEN a ELSE b

\* es_confidence with the empty list handled by the single-hit rule
\* ("if len(hits) <= 1: full confidence").
es_confidence_empty_is_dominant(hits) ==
    IF Len(hits) <= 1 THEN [exc |-> "none", best |-> Len(hits), c |-> Rat(1, 1)]
    ELSE IF Max(hits[1].score, hits[2].score) = 0
         THEN [exc |-> "ZeroDivisionError", best |-> 0, c |-> Rat(0, 1)]
         ELSE [exc |-> "none", best |-> 1,
               c |-> Rat(hits[1].score, Max(hits[1].score, hits[2].score))]

\* es_confidence without the single-hit rule: a missing runner-up counts as a
\* runner-up of score 0.
es_confidence_no_single_rule(hits) ==
    IF Len(hits) = 0 THEN [exc |-> "none", best |-> 0, c |-> Rat(0, 1)]
    ELSE LET top == hits[1].score
             nxt == IF Len(hits) >= 2 THEN hits[2].score ELSE 0
         IN IF Max(top, nxt) = 0
            THEN [exc |-> "ZeroDivisionError", best |-> 0, c |-> Rat(0, 1)]
            ELSE [exc |-> "none", best |-> 1, c |-> Rat(top, Max(top, nxt))]

\* es_confidence dividing the runner-up's score by the maximum of the two.
es_confidence_runner_up_ratio(hits) ==
    IF Len(hits) = 0 THEN [exc |-> "none", best |-> 0, c |-> Rat(0, 1)]
    ELSE IF Len(hits) = 1 THEN [exc |-> "none", best |-> 1, c |-> Rat(1, 1)]
    ELSE IF Max(hits[1].score, hits[2].score) = 0
         THEN [exc |-> "ZeroDivisionError", best |-> 0, c |-> Rat(0, 1)]
         ELSE [exc |-> "none", best |-> 1,
               c |-> Rat(hits[2].score, Max(hits[1].score, hits[2].score))]

\* es_confidence(hits): [exc, best, c]; best is the index of the hit in hits
\* (0 for None).
es_confidence(hits) ==
    IF Len(hits) = 0 THEN [exc |-> "none", best |-> 0, c |-> Rat(0, 1)]
    ELSE LET top == hits[1].score IN
         IF Len(hits) = 1 THEN [exc |-> "none", best |-> 1, c |-> Rat(1, 1)]
         ELSE LET nxt == hits[2].score IN
              IF Max(top, nxt) = 0
              THEN [exc |-> "ZeroDivisionError", best |-> 0, c |-> Rat(0, 1)]
              ELSE [exc |-> "none", best |-> 1, c |-> Rat(top, Max(top, nxt))]

\* Length of the longest common subsequence of a[1..i] and b[1..j].
RECURSIVE LCSUpTo(_, _, _, _)
LCSUpTo(a, b, i, j) ==
    IF i = 0 \/ j = 0 THEN 0
    ELSE IF a[i] = b[j] THEN 1 + LCSUpTo(a, b, i - 1, j - 1)
    ELSE Max(LCSUpTo(a, b, i - 1, j), LCSUpTo(a, b, i, j - 1))

LCS(a, b) == LCSUpTo(a, b, Len(a), Len(b))

\* rapidfuzz.fuzz.ratio(a, b): the normalized indel similarity, in [0, 100]:
\* 100 * (1 - dist / (len(a) + len(b))) with dist = len(a) + len(b) - 2*LCS,
\* and 100 for two empty strings.
fuzz_ratio(a, b) ==
    LET total == Len(a) + Len(b)
    IN IF total = 0 THEN Rat(100, 1) ELSE Rat(200 * LCS(a, b), total)

\* metaphone.doublemetaphone(s) on the vocabulary: (primary, alternate), the
\* alternate "" when it equals the primary.  The encoder upper-cases its
\* input and skips characters that are not letters.
doublemetaphone(s) ==
    LET u == upper(s) IN
    CASE u = UpperSmith -> <<"SM0", "XMT">>
      [] u = UpperSchmidt -> <<"XMT", "SMT">>
      [] u = UpperSam -> <<"SM", "">>
      [] u = UpperSeim -> <<"SM", "">>
      [] u = Digits -> <<"", "">>

\* The loop of string_similarity over hits[i..]: keeps the first hit with the
\* strictly greatest ratio.
RECURSIVE string_loop(_, _, _, _, _)
string_loop(qq, hits, i, best, score) ==
    IF i > Len(hits) THEN [best |-> best, score |-> score]
    ELSE LET v == fuzz_ratio(lower(qq), lower(hits[i].company_name))
         IN IF RatGT(v, score) THEN string_loop(qq, hits, i + 1, i, v)
            ELSE string_loop(qq, hits, i + 1, best, score)

string_similarity(qq, hits) == string_loop(qq, hits, 1, 0, Rat(0, 1))

\* The bonus one hit earns in phonetic_similarity.
phonetic_bonus(qcodes, ncodes) ==
    LET qp == qcodes[1]
        qa == qcodes[2]
        np == ncodes[1]
        na == ncodes[2]
    IN (IF qp = np THEN 70 ELSE 0) + (IF qa = np THEN 60 ELSE 0)
         + (IF qp = na THEN 50 ELSE 0)

RECURSIVE phonetic_loop(_, _, _, _, _)
phonetic_loop(qcodes, hits, i, best, score) ==
    IF i > Len(hits) THEN [best |-> best, score |-> score]
    ELSE LET sc == phonetic_bonus(qcodes, doublemetaphone(hits[i].company_name))
         IN IF sc > score THEN phonetic_loop(qcodes, hits, i + 1, i, sc)
            ELSE phonetic_loop(qcodes, hits, i + 1, best, score)

phonetic_similarity(qq, hits) ==
    IF Len(hits) = 0 THEN [best |-> 0, score |-> 0]
    ELSE phonetic_loop(doublemetaphone(qq), hits, 1, 0, 0)

\* combined = 0.6*es_c + 0.3*(str_s/100) + 0.1*(ph_s/100)
combined_score(es_c, str_s, ph_s) ==
    RatAdd(RatAdd(RatMul(Rat(6, 10), es_c),
                  RatMul(Rat(3, 10), RatMul(str_s, Rat(1, 100)))),
           RatMul(Rat(1, 10), Rat(ph_s, 100)))

(***************************************************************************)
(* config.py                                                               *)
(***************************************************************************)
THRESHOLD_ACCEPT == Rat(55, 100)
THRESHOLD_HIGH == Rat(75, 100)

(***************************************************************************)
(* logging_utils.py                                                        *)
(***************************************************************************)
NoDoc == [event |-> "none", input |-> None, matched |-> None,
          score |-> Rat(0, 1), reason |-> "none", level |-> "none"]

\* elk_log(event, input, matched, score, reason, level): [exc, doc]; open() or
\* write() raise OSError when the file cannot be opened or written.
elk_log(writable, event, input, matched, score, reason, level) ==
    IF writable
    THEN [exc |-> "none",
          doc |-> [event |-> event, input |-> input, matched |-> matched,
                   score |-> score, reason |-> reason, level |-> level]]
    ELSE [exc |-> "OSError", doc |-> NoDoc]

(***************************************************************************)
(* matching.py                                                             *)
(***************************************************************************)
NoSig == [hits |-> <<>>, es_best |-> 0, es_c |-> Rat(0, 1), st_best |-> 0,
          st_s |-> Rat(0, 1), ph_best |-> 0, ph_s |-> 0]
NoDecision == [match |-> None, confidence |-> Rat(0, 1), level |-> "none",
               reason |-> "none", status |-> "none"]

level_of(combined) ==
    IF RatGE(combined, THRESHOLD_HIGH) THEN "HIGH"
    ELSE IF RatGE(combined, THRESHOLD_ACCEPT) THEN "MEDIUM"
    ELSE "LOW"

\* reason_of with the string rule tried before the dominance rule.
reason_of_string_first(es_c, st_s, ph_s) ==
    IF RatGE(st_s, Rat(65, 1)) THEN "STRING_SIMILARITY_USED"
    ELSE IF RatGE(es_c, THRESHOLD_HIGH) THEN "HIGH_ES_CONFIDENCE"
    ELSE IF ph_s >= 50 THEN "PHONETIC_FALLBACK_USED"
    ELSE "WEAK_MATCH"

reason_of(es_c, st_s, ph_s) ==
    IF RatGE(es_c, THRESHOLD_HIGH) THEN "HIGH_ES_CONFIDENCE"
    ELSE IF RatGE(st_s, Rat(65, 1)) THEN "STRING_SIMILARITY_USED"
    ELSE IF ph_s >= 50 THEN "PHONETIC_FALLBACK_USED"
    ELSE "WEAK_MATCH"

\* status_of with a strict comparison.
status_of_strict(combined) ==
    IF RatGT(combined, THRESHOLD_ACCEPT) THEN "ACCEPTED" ELSE "REJECTED"

status_of(combined) ==
    IF RatGE(combined, THRESHOLD_ACCEPT) THEN "ACCEPTED" ELSE "REJECTED"

\* The index of the first hit of hits[i..] with the greatest relevance score.
RECURSIVE top_scored(_, _, _)
top_scored(hits, i, best) ==
    IF i > Len(hits) THEN best
    ELSE IF hits[i].score > hits[best].score THEN top_scored(hits, i + 1, i)
    ELSE top_scored(hits, i + 1, best)

\* result_of returning the highest-scored candidate instead of the one at
\* index 0.
result_of_top_scored(combined, hits, es_best) ==
    IF RatGE(combined, THRESHOLD_ACCEPT)
    THEN IF es_best # 0 THEN hits[top_scored(hits, 1, 1)].company_name ELSE None
    ELSE None

result_of(combined, hits, es_best) ==
    IF RatGE(combined, THRESHOLD_ACCEPT)
    THEN IF es_best # 0 THEN hits[es_best].company_name ELSE None
    ELSE None

\* match(q) with the response of Elasticsearch and the state of the audit
\* file as inputs: [exc, sig, ret, doc].
match(qq, resp, writable) ==
    LET found == search_es(resp) IN
    IF found.exc # "none"
    THEN [exc |-> found.exc, sig |-> NoSig, ret |-> NoDecision, doc |-> NoDoc]
    ELSE
    LET hits == found.hits
        es == es_confidence(hits)
    IN
    IF es.exc # "none"
    THEN [exc |-> es.exc, sig |-> [NoSig EXCEPT !.hits = hits],
          ret |-> NoDecision, doc |-> NoDoc]
    ELSE
    LET st == string_similarity(qq, hits)
        ph == phonetic_similarity(qq, hits)
        combined == combined_score(es.c, st.score, ph.score)
        level == level_of(combined)
        reason == reason_of(es.c, st.score, ph.score)
        result == result_of(combined, hits, es.best)
        status == status_of(combined)
        logged == elk_log(writable, "match_decision", qq, result, combined,
                          reason, status)
        signals == [hits |-> hits, es_best |-> es.best, es_c |-> es.c,
                    st_best |-> st.best, st_s |-> st.score,
                    ph_best |-> ph.best, ph_s |-> ph.score]
    IN
    IF logged.exc # "none"
    THEN [exc |-> logged.exc, sig |-> signals, ret |-> NoDecision, doc |-> NoDoc]
    ELSE [exc |-> "none", sig |-> signals,
          ret |-> [match |-> result, confidence |-> combined, level |-> level,
                   reason |-> reason, status |-> status],
          doc |-> logged.doc]

(***************************************************************************)
(* __main__.py: the loop "for real, bad in zip(...): r = match(bad)".      *)
(***************************************************************************)
\* r = match(bad), for any query, any response of Elasticsearch and any state
\* of the audit file.
Match ==
    /\ pc = "ready"
    /\ auditLines < MaxLogLines
    /\ \E qq \in Queries, resp \in Responses, writable \in BOOLEAN :
       \E m \in {match(qq, resp, writable)} :
        /\ q' = qq
        /\ response' = resp
        /\ sinkOk' = writable
        /\ sig' = m.sig
        /\ ret' = m.ret
        /\ exc' = m.exc
        /\ doc' = m.doc
        /\ auditLines' = IF m.doc # NoDoc THEN auditLines + 1 ELSE auditLines
        /\ pc' = IF m.exc = "none" THEN "returned" ELSE "raised"
    /\ UNCHANGED dirtyVars

\* print(real, "=>", bad, "=>", r) and the next iteration of the loop; an
\* exception raised by match ends the program instead.
NextQuery ==
    /\ pc = "returned"
    /\ pc' = "ready"
    /\ q' = None
    /\ response' = [kind |-> "none", hits |-> <<>>]
    /\ sinkOk' = TRUE
    /\ sig' = NoSig
    /\ ret' = NoDecision
    /\ exc' = "none"
    /\ doc' = NoDoc
    /\ UNCHANGED auditLines
    /\ UNCHANGED dirtyVars

NoTrace == [replaced |-> {}, vowels |-> FALSE, swapped |-> FALSE]

DirtyIdle ==
    /\ dpc = "ready"
    /\ dtrace = NoTrace
    /\ dname = None
    /\ drand = <<>>
    /\ dpick = <<>>
    /\ dswap = 0
    /\ dout = None
    /\ dused = 0

MatchIdle ==
    /\ pc = "ready"
    /\ q = None
    /\ response = [kind |-> "none", hits |-> <<>>]
    /\ sinkOk = TRUE
    /\ sig = NoSig
    /\ ret = NoDecision
    /\ exc = "none"
    /\ doc = NoDoc

Init == MatchIdle /\ auditLines = 0 /\ DirtyIdle

Next == Match \/ NextQuery

Spec == Init /\ [][Next]_vars

(***************************************************************************)
(* generator.py                                                            *)
(***************************************************************************)
\* Bounds of the inputs of dirty_name.
MaxLowDraws == 3
MaxSwapIndex == 1
MaxPicks == 3

\* The dictionary, in insertion order.
phonetic_variations == <<
    [word |-> <<"s","e","r","v","i","c","e","s">>,
     variants |-> <<<<"s","i","r","v","i","c","e","s">>,
                    <<"s","e","r","v","i","e","s">>,
                    <<"s","a","r","v","i","c","e","s">>>>],
    [word |-> <<"s","o","l","u","t","i","o","n","s">>,
     variants |-> <<<<"s","o","l","u","t","o","n","s">>,
                    <<"s","o","l","t","i","o","n","s">>>>],
    [word |-> <<"i","n","d","u","s","t","r","i","e","s">>,
     variants |-> <<<<"i","n","d","u","s","t","r","e","s">>,
                    <<"i","n","d","u","s","t","r","i","s">>,
                    <<"i","n","d","u","s","t","r","y","s">>>>],
    [word |-> <<"c","o","n","s","u","l","t","i","n","g">>,
     variants |-> <<<<"c","o","n","s","a","l","t","i","n","g">>,
                    <<"c","o","n","s","u","l","t","n","g">>,
                    <<"c","o","n","s","l","t","n","g">>>>],
    [word |-> <<"g","l","o","b","a","l">>,
     variants |-> <<<<"g","l","o","b","e","l">>,
                    <<"g","l","o","b","a","l","y">>>>],
    [word |-> <<"t","e","c","h">>,
     variants |-> <<<<"t","e","c","k">>,
                    <<"t","e","k">>,
                    <<"t","e","c","h","n">>>>],
    [word |-> <<"t","e","c","h","n","o","l","o","g","y">>,
     variants |-> <<<<"t","e","c","h","n","o","l","g","y">>,
                    <<"t","e","c","n","o","l","o","g","y">>,
                    <<"t","e","c","h","n","l","o","g","y">>>>],
    [word |-> <<"c","o","m","p","a","n","y">>,
     variants |-> <<<<"c","o","m","p","n","y">>,
                    <<"c","o","m","p","a","n","i">>>>],
    [word |-> <<"l","i","m","i","t","e","d">>,
     variants |-> <<<<"l","i","m","t","i","e","d">>,
                    <<"l","i","m","e","t","e","d">>,
                    <<"l","i","m","i","t","i","d">>>>],
    [word |-> <<"s","o","f","t","w","a","r","e">>,
     variants |-> <<<<"s","o","f","t","w","e","r","e">>,
                    <<"s","o","f","t","w","a","r">>>>],
    [word |-> <<"s","y","s","t","e","m","s">>,
     variants |-> <<<<"s","y","s","t","m","s">>,
                    <<"s","i","s","t","e","m">>>>],
    [word |-> <<"c","o","r","p","o","r","a","t","i","o","n">>,
     variants |-> <<<<"c","o","r","p","r","a","t","i","o","n">>,
                    <<"c","o","r","p","o","r","a","t","n">>,
                    <<"c","o","r","p","o","r","a","t","o","n">>>>]
>>

\* word in n
Contains(n, w) ==
    \E i \in 1..(Len(n) - Len(w) + 1) : SubSeq(n, i, i + Len(w) - 1) = w

\* n.replace(w, v): every non-overlapping occurrence of w, left to right, from
\* position i on.
RECURSIVE replace_from(_, _, _, _)
replace_from(n, w, v, i) ==
    IF i > Len(n) THEN <<>>
    ELSE IF i + Len(w) - 1 <= Len(n) /\ SubSeq(n, i, i + Len(w) - 1) = w
         THEN v \o replace_from(n, w, v, i + Len(w))
         ELSE <<n[i]>> \o replace_from(n, w, v, i + 1)

replace(n, w, v) == replace_from(n, w, v, 1)

IsNotVowel(ch) == ch \notin {"a", "e", "i", "o", "u"}
IsNotPunct(ch) == ch \notin {"&", "."}

\* str.capitalize(): the first character upper-cased, the rest lower-cased.
capitalize(n) ==
    IF Len(n) = 0 THEN n
    ELSE upper(<<n[1]>>) \o lower(SubSeq(n, 2, Len(n)))

\* random.choice(variants), p being the random integer it draws.
choice(variants, p) == variants[(p % Len(variants)) + 1]

\* The loop over phonetic_variations.items() from entry k on.  st is
\* [n, used, picked, replaced]: the string so far, the number of
\* random.random() and of random.choice() calls made, and the entries whose
\* word was replaced.  random.random() is called only when the word occurs
\* in n ("word in n and random.random() < 0.5" short-circuits).
RECURSIVE variations_loop(_, _, _, _)
variations_loop(st, rand, pick, k) ==
    IF k > Len(phonetic_variations) THEN st
    ELSE LET e == phonetic_variations[k] IN
         IF Contains(st.n, e.word)
         THEN IF rand[st.used + 1] < 50
              THEN variations_loop(
                       [n |-> replace(st.n, e.word, choice(e.variants, pick[st.picked + 1])),
                        used |-> st.used + 1,
                        picked |-> st.picked + 1,
                        replaced |-> st.replaced \cup {k}],
                       rand, pick, k + 1)
              ELSE variations_loop([st EXCEPT !.used = st.used + 1], rand, pick, k + 1)
         ELSE variations_loop(st, rand, pick, k + 1)

\* dirty_name up to and including the vowel removal.
before_swap(name, rand, pick) ==
    LET st == variations_loop([n |-> lower(name), used |-> 0, picked |-> 0,
                               replaced |-> {}], rand, pick, 1)
        vowels == rand[st.used + 1] < 20
    IN [n |-> IF vowels THEN SelectSeq(st.n, IsNotVowel) ELSE st.n,
        used |-> st.used + 1,
        replaced |-> st.replaced,
        vowels |-> vowels]

\* Whether the adjacent-character swap is made:
\* random.random() < 0.2 and len(n) > 4.
swaps(name, rand, pick) ==
    LET b == before_swap(name, rand, pick)
    IN rand[b.used + 1] < 20 /\ Len(b.n) > 4

\* dirty_name(name): [out, used, replaced, vowels, swapped], with rand the
\* values of random.random(), pick those of random.choice and i the value of
\* random.randint(0, len(n) - 2).
dirty_name(name, rand, pick, i) ==
    LET b == before_swap(name, rand, pick)
        swapped == swaps(name, rand, pick)
        n3 == IF swapped
              THEN [b.n EXCEPT ![i + 1] = b.n[i + 2], ![i + 2] = b.n[i + 1]]
              ELSE b.n
        n4 == SelectSeq(n3, IsNotPunct)
        out == IF rand[b.used + 2] < 30 THEN capitalize(lower(n4)) ELSE capitalize(n4)
    IN [out |-> out, used |-> b.used + 2, replaced |-> b.replaced,
        vowels |-> b.vowels, swapped |-> swapped]

\* The values random.randint(0, len(n) - 2) can return (0 when it is not called).
swap_choices(name, rand, pick) ==
    IF swaps(name, rand, pick)
    THEN {i \in 0..MaxSwapIndex : i <= Len(before_swap(name, rand, pick).n) - 2}
    ELSE {0}

(***************************************************************************)
(* Inputs of dirty_name.                                                   *)
(***************************************************************************)
TechServicesLimited == <<"T","e","c","h"," ","S","e","r","v","i","c","e","s"," ","L","i","m","i","t","e","d">>
Alpha == <<"A","l","p","h","a">>
JandJ == <<"J","&","J"," ","C","o",".">>

DirtyInputs == {TechServicesLimited, Alpha, JandJ}

\* random.random() values, in hundredths.
DrawValues == {10, 40, 90}

\* With the tests' fake_random a call of dirty_name is handed one value per
\* dictionary entry and three more.
StreamLen == Len(phonetic_variations) + 3

\* Streams of StreamLen values with at most MaxLowDraws of them below 0.9.
RECURSIVE StreamsFrom(_, _)
StreamsFrom(len, low) ==
    IF len = 0 THEN {<<>>}
    ELSE {<<90>> \o s : s \in StreamsFrom(len - 1, low)}
           \cup (IF low = 0 THEN {}
                 ELSE {<<v>> \o s : v \in DrawValues \ {90},
                                    s \in StreamsFrom(len - 1, low - 1)})

RandStreams == StreamsFrom(StreamLen, MaxLowDraws)
PickStreams == [1..MaxPicks -> {0, 1}]

\* dirties = [dirty_name(x) for x in companies]: one call.
DirtyName ==
    /\ dpc = "ready"
    /\ \E name \in DirtyInputs, rand \in RandStreams, pick \in PickStreams :
       \E i \in swap_choices(name, rand, pick) :
       \E r \in {dirty_name(name, rand, pick, i)} :
        /\ dname' = name
        /\ drand' = rand
        /\ dpick' = pick
        /\ dswap' = i
        /\ dout' = r.out
        /\ dused' = r.used
        /\ dtrace' = [replaced |-> r.replaced, vowels |-> r.vowels,
                      swapped |-> r.swapped]
        /\ dpc' = "done"
    /\ UNCHANGED matchVars

\* The next element of the list comprehension.
DirtyNextName ==
    /\ dpc = "done"
    /\ dpc' = "ready"
    /\ dname' = None
    /\ drand' = <<>>
    /\ dpick' = <<>>
    /\ dswap' = 0
    /\ dout' = None
    /\ dused' = 0
    /\ dtrace' = NoTrace
    /\ UNCHANGED matchVars

NextDirty == DirtyName \/ DirtyNextName

SpecDirty == Init /\ [][NextDirty]_vars

(***************************************************************************)
(* Properties of match.                                                    *)
(***************************************************************************)
\* match has been called and search_es handed it a candidate list.
Searched == pc # "ready" /\ search_es(response).exc = "none"

EmptyDecision ==
    [match |-> None, confidence |-> Rat(0, 1), level |-> "LOW",
     reason |-> "WEAK_MATCH", status |-> "REJECTED"]

\* C1: for every query and every candidate list with non-negative relevance
\* scores, the confidence match returns satisfies 0 <= combined <= 1, and the
\* phonetic score never exceeds 100.
C1_CombinedInUnitInterval ==
    pc = "returned" =>
        /\ RatGE(ret.confidence, Rat(0, 1))
        /\ RatGE(Rat(1, 1), ret.confidence)
        /\ sig.ph_s <= 100

\* C2: when the candidate source returns an empty candidate list, all three
\* signals return a "none" best candidate with score 0, and the decision match
\* returns has confidence 0.0, level LOW, reason WEAK_MATCH, status REJECTED
\* and no matched name; with a writable audit file match does return it.
C2_EmptyCandidates ==
    (Searched /\ search_es(response).hits = <<>>) =>
        /\ sig.es_best = 0 /\ sig.es_c = Rat(0, 1)
        /\ sig.st_best = 0 /\ sig.st_s = Rat(0, 1)
        /\ sig.ph_best = 0 /\ sig.ph_s = 0
        /\ pc = "returned" => ret = EmptyDecision
        /\ sinkOk => pc = "returned"

C2_Witness ==
    /\ pc = "returned"
    /\ response = [kind |-> "ok", hits |-> <<>>]
    /\ q = Digits
    /\ ret = EmptyDecision

\* C3: with exactly one candidate, es_confidence returns that candidate with
\* confidence exactly 1.0, whatever its relevance score, including 0.
C3_SingleCandidate ==
    (Searched /\ Len(search_es(response).hits) = 1) =>
        /\ exc # "ZeroDivisionError"
        /\ sig.es_best = 1
        /\ sig.es_c = Rat(1, 1)

C3_Witness ==
    /\ Searched
    /\ Len(sig.hits) = 1
    /\ sig.hits[1].score = 0
    /\ sig.es_best = 1
    /\ sig.es_c = Rat(1, 1)

\* C4: the reason code is chosen in strict priority order: HIGH_ES_CONFIDENCE
\* iff esC >= highThreshold; STRING_SIMILARITY_USED iff esC < highThreshold and
\* strS >= 65; PHONETIC_FALLBACK_USED iff esC < highThreshold, strS < 65 and
\* phS >= 50; WEAK_MATCH otherwise.
C4_ReasonPriority ==
    pc = "returned" =>
        LET esHigh == RatGE(sig.es_c, THRESHOLD_HIGH)
            strHigh == RatGE(sig.st_s, Rat(65, 1))
            phHigh == sig.ph_s >= 50
        IN /\ ret.reason = "HIGH_ES_CONFIDENCE" <=> esHigh
           /\ ret.reason = "STRING_SIMILARITY_USED" <=> (~esHigh /\ strHigh)
           /\ ret.reason = "PHONETIC_FALLBACK_USED" <=> (~esHigh /\ ~strHigh /\ phHigh)
           /\ ret.reason = "WEAK_MATCH" <=> (~esHigh /\ ~strHigh /\ ~phHigh)

C4_Witness ==
    /\ pc = "returned"
    /\ RatGE(sig.es_c, THRESHOLD_HIGH)
    /\ RatGE(sig.st_s, Rat(65, 1))
    /\ sig.ph_s >= 50
    /\ ret.reason = "HIGH_ES_CONFIDENCE"

\* C5: the threshold comparisons are inclusive and consistent between tier and
\* status: ACCEPTED iff combined >= acceptThreshold, HIGH iff combined >=
\* highThreshold, MEDIUM iff acceptThreshold <= combined < highThreshold, LOW
\* iff combined < acceptThreshold; hence REJECTED exactly when LOW.
C5_InclusiveThresholds ==
    pc = "returned" =>
        LET accept == RatGE(ret.confidence, THRESHOLD_ACCEPT)
            high == RatGE(ret.confidence, THRESHOLD_HIGH)
        IN /\ ret.status \in {"ACCEPTED", "REJECTED"}
           /\ ret.level \in {"HIGH", "MEDIUM", "LOW"}
           /\ ret.status = "ACCEPTED" <=> accept
           /\ ret.level = "HIGH" <=> high
           /\ ret.level = "MEDIUM" <=> (accept /\ ~high)
           /\ ret.level = "LOW" <=> ~accept
           /\ ret.status = "REJECTED" <=> ret.level = "LOW"

\* combined == acceptThreshold exactly: query "Schmidt" against
\* [Smith (score 1), Smith (score 2)] gives 0.6*0.5 + 0.3*(2/3) + 0.1*0.5.
C5_Witness ==
    /\ pc = "returned"
    /\ ret.confidence = THRESHOLD_ACCEPT
    /\ ret.status = "ACCEPTED"
    /\ ret.level = "MEDIUM"

\* combined == highThreshold exactly is HIGH.
C5_WitnessHigh ==
    /\ pc = "returned"
    /\ ret.confidence = THRESHOLD_HIGH
    /\ ret.level = "HIGH"

\* C6: the matched name is set only when status = ACCEPTED, and it is then the
\* canonical name of the candidate at index 0 of the candidate list, never the
\* best-string or best-phonetic candidate; when REJECTED it is empty.
C6_MatchedNameIsTopCandidate ==
    pc = "returned" =>
        /\ ret.match # None => ret.status = "ACCEPTED"
        /\ ret.status = "ACCEPTED" =>
              /\ Len(sig.hits) >= 1
              /\ ret.match = sig.hits[1].company_name
        /\ ret.status = "REJECTED" => ret.match = None

C6_Witness ==
    /\ pc = "returned"
    /\ ret.status = "ACCEPTED"
    /\ ret.reason = "STRING_SIMILARITY_USED"
    /\ sig.st_best > 1
    /\ sig.hits[sig.st_best].company_name # sig.hits[1].company_name
    /\ ret.match = sig.hits[1].company_name

\* C7: with two or more candidates whose top and runner-up relevance scores are
\* both zero, es_confidence returns confidence 0.0 and match still returns a
\* decision instead of raising a division-by-zero error.
C7_ZeroDenominatorGuarded ==
    (/\ Searched
     /\ Len(search_es(response).hits) >= 2
     /\ search_es(response).hits[1].score = 0
     /\ search_es(response).hits[2].score = 0) =>
        /\ exc # "ZeroDivisionError"
        /\ sig.es_c = Rat(0, 1)
        /\ sinkOk => pc = "returned"

\* C8: a failure of the audit-log write never fails the match: match returns
\* the decision it would have returned had the write succeeded, and no error
\* propagates to the caller.
C8_AuditFailureDoesNotFailMatch ==
    (/\ pc # "ready"
     /\ ~sinkOk
     /\ match(q, response, TRUE).exc = "none") =>
        /\ pc = "returned"
        /\ exc = "none"
        /\ ret = match(q, response, TRUE).ret

\* C9: whenever the candidate source is unreachable or answers with a malformed
\* or error response, match surfaces a distinct error to its caller and does
\* not return the empty-candidate decision.
C9_RetrievalFailureIsDistinct ==
    (pc # "ready" /\ response.kind \in {"unreachable", "not_json", "error_body"}) =>
        /\ pc = "raised"
        /\ exc \in {"ConnectionError", "JSONDecodeError", "SourceUnavailable"}
        /\ ret # EmptyDecision

(***************************************************************************)
(* Properties of dirty_name.                                               *)
(***************************************************************************)
\* The random streams and expected results of tests/test_generator.py.
Test1Rand == <<10, 90, 90, 90, 90, 10, 90, 90, 10, 90, 90, 90, 90, 90, 90>>
Test1Out == <<"T","e","c","k"," ","s","i","r","v","i","c","e","s"," ","l","i","m","t","i","e","d">>
Test2Rand == <<90, 90, 90, 90, 90, 90, 90, 90, 90, 90, 90, 90, 10, 90, 90>>
Test2Out == <<"L","p","h">>

\* C10: dirty_name consumes its random draws in a fixed sequence that does not
\* depend on the name: one draw per entry of phonetic_variations in dictionary
\* order, then one for the vowel removal, one for the swap and one for the
\* capitalization.  Entry k is replaced exactly when its word occurs in the
\* name and draw k is below 0.5; vowels are removed exactly when the draw after
\* the dictionary's is below 0.2; and the two tests' streams give their
\* expected results.
C10_FixedDrawSequence ==
    dpc = "done" =>
        LET entries == Len(phonetic_variations) IN
        /\ dused = entries + 3
        /\ \A k \in 1..entries :
              k \in dtrace.replaced <=>
                  (Contains(lower(dname), phonetic_variations[k].word) /\ drand[k] < 50)
        /\ dtrace.vowels <=> drand[entries + 1] < 20
        /\ (dname = TechServicesLimited /\ drand = Test1Rand
              /\ dpick = [i \in 1..MaxPicks |-> 0]) => dout = Test1Out
        /\ (dname = Alpha /\ drand = Test2Rand) => dout = Test2Out

(***************************************************************************)
(* Properties of phonetic_similarity and of match on ordered candidates.   *)
(***************************************************************************)
\* The bonus of one candidate when an empty alternate code never matches.
BonusWithoutEmptyMatches(qcodes, ncodes) ==
    (IF qcodes[1] = ncodes[1] THEN 70 ELSE 0)
      + (IF qcodes[2] # "" /\ qcodes[2] = ncodes[1] THEN 60 ELSE 0)
      + (IF ncodes[2] # "" /\ qcodes[1] = ncodes[2] THEN 50 ELSE 0)

\* C11: the per-candidate phonetic score is the sum of +70 if qp == np, +60 if
\* qa == np and +50 if qp == na, where an empty alternate code never produces
\* a match: +60 is not awarded when qa is empty and +50 is not awarded when na
\* is empty, even if the code it is compared with is empty too.  The score
\* phonetic_similarity returns is the greatest such sum over the candidates.
C11_EmptyCodeNeverMatches ==
    (Searched /\ exc # "ZeroDivisionError") =>
        LET bonuses == {BonusWithoutEmptyMatches(
                            doublemetaphone(q),
                            doublemetaphone(sig.hits[i].company_name)) :
                        i \in 1..Len(sig.hits)}
        IN /\ sig.ph_s \in bonuses \cup {0}
           /\ \A b \in bonuses : sig.ph_s >= b

\* The documented precondition of es_confidence: hits ordered by _score
\* descending.
OrderedByScore(hits) ==
    \A i \in 1..(Len(hits) - 1) : hits[i].score >= hits[i + 1].score

\* C12: when the candidates arrive ordered by relevance score descending, with
\* the default thresholds, the decision does not depend on the query or on the
\* string and phonetic signals: for every non-empty candidate list whose top
\* score is positive es_confidence is 1.0 and match returns ACCEPTED,
\* HIGH_ES_CONFIDENCE and the first candidate's name (it returns whenever the
\* audit file is writable); the reasons STRING_SIMILARITY_USED and
\* PHONETIC_FALLBACK_USED never occur and REJECTED occurs only for the empty
\* candidate list.
C12_OrderedCandidatesAlwaysAccepted ==
    (Searched /\ OrderedByScore(search_es(response).hits)) =>
        LET hits == search_es(response).hits IN
        /\ (Len(hits) >= 1 /\ hits[1].score > 0) =>
              /\ exc # "ZeroDivisionError"
              /\ sig.es_c = Rat(1, 1)
              /\ sinkOk => pc = "returned"
              /\ pc = "returned" =>
                    /\ ret.status = "ACCEPTED"
                    /\ ret.reason = "HIGH_ES_CONFIDENCE"
                    /\ ret.match = hits[1].company_name
        /\ pc = "returned" =>
              /\ ret.reason \notin {"STRING_SIMILARITY_USED", "PHONETIC_FALLBACK_USED"}
              /\ ret.status = "REJECTED" => hits = <<>>

\* An ordered list of two candidates, neither resembling the query in
\* spelling or in sound, is accepted all the same.
C12_Witness ==
    /\ pc = "returned"
    /\ Len(sig.hits) = 2
    /\ sig.hits[1].score > sig.hits[2].score
    /\ sig.hits[2].score > 0
    /\ sig.st_s = Rat(0, 1)
    /\ sig.ph_s = 0
    /\ ret.status = "ACCEPTED"
    /\ ret.reason = "HIGH_ES_CONFIDENCE"
    /\ ret.match = sig.hits[1].company_name

====
